---------------------------- MODULE Spec2Model ----------------------------
(***************************************************************************)
(* Model of the HD44780 bus-protocol engine of wiringPi/hd44780.c: the     *)
(* node record, the deadline tracking, the 4-bit and 8-bit write and read  *)
(* sequencing at pin level, and the width flag that follows function-set   *)
(* instructions.  One step of the model is one pin-level call (or one      *)
(* group of calls between two enable edges) of the C code.                 *)
(***************************************************************************)
EXTENDS Integers, Sequences, FiniteSets

(* ------------------------------ bounds --------------------------------- *)

\* Number of digitalWrite/digitalRead calls made on the node after setup.
MaxOps == 2
\* Number of times one busy-wait may sample the busy flag high.
MaxPolls == 1
\* Number of times one blind sleep may be woken before its deadline.
MaxWakes == 1
\* CLOCK_MONOTONIC_RAW reading (ns) when the program starts: just below a
\* whole second, so that deadlines carry from tv_nsec into tv_sec.
StartClock == 999990000

\* Values passed to digitalWrite: the last byte of the clear/home class (3),
\* the first ordinary instruction (4), function-set 4-bit (0x28) and 8-bit
\* (0x30), set-CGRAM 0 (0x40, low six bits zero) and an int wider than a
\* byte with distinct nibbles (0x1A5, the byte 0xA5).
Bytes == {3, 4, 40, 48, 64, 421}
\* Time the caller lets pass before a call (ns): none, or 2 ms.
Gaps == {0, 2000000}
\* Levels the controller may drive on lines 7..4 (or 7..0) during a read.
SampleNibbles == {5, 10}

(* ------------------------- program constants --------------------------- *)

enable_duration == 300
NsPerSec == 1000000000
BlindSleepThreshold == 100000

standard_busy_delay == [tv_sec |-> 0, tv_nsec |-> 37000]
extended_busy_delay == [tv_sec |-> 0, tv_nsec |-> 41000]
reset_busy_delay == [tv_sec |-> 0, tv_nsec |-> 1520000]
NoDelay == [tv_sec |-> -1, tv_nsec |-> -1]

Roles == {"RS", "RW", "E", "DB0", "DB1", "DB2", "DB3", "DB4", "DB5", "DB6", "DB7"}
DBName == <<"DB0", "DB1", "DB2", "DB3", "DB4", "DB5", "DB6", "DB7">>
\* nodeData->pinDB[i]
pinDB(i) == DBName[i + 1]

(* --------------------------- pure functions ---------------------------- *)

RECURSIVE Pow2(_)
Pow2(n) == IF n = 0 THEN 1 ELSE 2 * Pow2(n - 1)

\* (x >> i) & 0b1
Bit(x, i) == (x \div Pow2(i)) % 2

\* const uint8_t data8 = data;
ToUint8(data) == data % 256

\* data8 & 0xF0
HighNibbleMask(b) == b - (b % 16)

\* Mutant: the carry of tv_nsec into tv_sec is dropped.
timespec_add_nocarry(lhs, rhs) ==
    [tv_sec  |-> lhs.tv_sec + rhs.tv_sec,
     tv_nsec |-> (lhs.tv_nsec + rhs.tv_nsec) % NsPerSec]

timespec_add(lhs, rhs) ==
    [tv_sec  |-> lhs.tv_sec + rhs.tv_sec + ((lhs.tv_nsec + rhs.tv_nsec) \div NsPerSec),
     tv_nsec |-> (lhs.tv_nsec + rhs.tv_nsec) % NsPerSec]

\* Mutant: only the nanosecond fields are compared.
timespec_gt_nsec(lhs, rhs) == lhs.tv_nsec > rhs.tv_nsec

timespec_gt(lhs, rhs) ==
    IF lhs.tv_sec = rhs.tv_sec THEN lhs.tv_nsec > rhs.tv_nsec
                               ELSE lhs.tv_sec > rhs.tv_sec

\* The instant a timespec names, in ns (what the kernel compares an
\* absolute sleep against).
TsNs(ts) == ts.tv_sec * NsPerSec + ts.tv_nsec

(* ------------------------------- state --------------------------------- *)

VARIABLES
    pc,             \* position of the single calling thread
    clock,          \* CLOCK_MONOTONIC_RAW, in ns
    level,          \* output latch of each pin: -1 never written, 0, 1
    mode,           \* direction of each pin: "unset", "in", "out"
    pud,            \* pull resistor of each pin: "unset", "up"
    setupStatus,    \* what hd44780Setup returned
    node,           \* what wiringPiNewNode returned: "none" (not called), "new", "null"
    dataStruct,     \* node->dataStruct: "null" or "alloc"
    nodeDigitalWrite,   \* node->digitalWrite: "none", "W8", "W4"
    nodeDigitalRead,    \* node->digitalRead: "none", "R8", "R4"
    readEnabled,    \* nodeData->readEnabled
    mode8Enabled,   \* nodeData->mode8Enabled
    mode8,          \* nodeData->mode8
    operation_end,  \* nodeData->operation_end
    pin,            \* argument of the running handler: 0 = pinBase, 1 = pinBase + 1
    data8,          \* the byte of the running write
    data,           \* the byte a read is assembling / has returned
    wv,             \* which busy-wait runs: 8 = waitWhileBusy_8, 4 = waitWhileBusy_4
    ret,            \* where the running busy-wait returns to
    polls,          \* busy-high samples taken by the running busy-wait
    wakes,          \* early wakes of the running sleep
    nops,           \* calls made on the node so far
    cur,            \* history of the running (or last finished) call
    prev            \* history of the call before it

vars == <<pc, clock, level, mode, pud, setupStatus, node, dataStruct, nodeDigitalWrite,
          nodeDigitalRead, readEnabled, mode8Enabled, mode8, operation_end, pin,
          data8, data, wv, ret, polls, wakes, nops, cur, prev>>

pinVars == <<level, mode, pud>>
nodeVars == <<setupStatus, node, dataStruct, nodeDigitalWrite, nodeDigitalRead,
              readEnabled, mode8Enabled>>
argVars == <<pin, data8>>
waitVars == <<wv, ret, polls, wakes>>

\* What the history records of one call.  falls: the enable falling edges of
\* the call, each with the cycle kind ("w" from writeCycleEnd, "r" from
\* readCycleEnd), its instant and the line levels at that instant; rise1:
\* the instant of the first rising edge made by writeCycleStart; slept: the
\* absolute sleeps the call has gone past, each with its deadline and the
\* instant execution went on; samples: the sampling loops of a read, each
\* with the control lines, the levels the controller offered and the level
\* digitalRead gave for each line; rises: the number of times the call set
\* enable high; ready: the numbers of rising and falling edges the call had
\* made when its busy-wait sampled the busy flag low; role, id: of a call of
\* setup, the pin argument that was given the id `id`; args: of a call of a
\* command constructor, its arguments.
NoCall ==
    [kind |-> "none", pin |-> -1, data8 |-> -1, entryMode8 |-> FALSE,
     encoder |-> 0, waiter |-> 0, delay |-> NoDelay,
     falls |-> <<>>, rise1 |-> -1, slept |-> <<>>, samples |-> <<>>, rises |-> 0,
     ready |-> [rises |-> -1, falls |-> -1], role |-> "none", id |-> 0,
     args |-> <<>>]

NoPrev ==
    [kind |-> "none", pin |-> -1, data8 |-> -1, encoder |-> 0, delay |-> NoDelay,
     lastFall |-> -1, role |-> "none", id |-> 0, wdelay |-> NoDelay]

\* Level of data line i as the bus sees it: the latch when the host drives
\* the line, "ext" when the line is an input (driven by the controller).
Line(i) == IF mode[pinDB(i)] = "out" THEN level[pinDB(i)] ELSE -2

\* The positions of the calling thread inside waitWhileBusy_8/_4.
WaitLabels ==
    {"wb_entry", "wb_sleep", "wb_pinin", "wb_status", "wb_start", "wb_sample",
     "wb_loop_end", "wb_loop_dummy_start", "wb_loop_dummy_end", "wb_loop_start",
     "wb_pinout", "wb_end", "wb_tail_start", "wb_tail_end"}

Fall(cyc, t) ==
    [cyc |-> cyc, t |-> t, rs |-> level["RS"], rw |-> level["RW"],
     db |-> [i \in 0..7 |-> Line(i)], wait |-> pc \in WaitLabels]

clock_gettime == [tv_sec |-> clock \div NsPerSec, tv_nsec |-> clock % NsPerSec]

Init ==
    /\ pc = "start"
    /\ clock = StartClock
    /\ level = [r \in Roles |-> -1]
    /\ mode = [r \in Roles |-> "unset"]
    /\ pud = [r \in Roles |-> "unset"]
    /\ setupStatus = "none"
    /\ node = "none"
    /\ dataStruct = "null"
    /\ nodeDigitalWrite = "none"
    /\ nodeDigitalRead = "none"
    /\ readEnabled = FALSE
    /\ mode8Enabled = FALSE
    /\ mode8 = FALSE
    /\ operation_end = [tv_sec |-> 0, tv_nsec |-> 0]
    /\ pin = -1
    /\ data8 = -1
    /\ data = -1
    /\ wv = 0
    /\ ret = "none"
    /\ polls = 0
    /\ wakes = 0
    /\ nops = 0
    /\ cur = NoCall
    /\ prev = NoPrev

(* ------------------------------- setup --------------------------------- *)

\* Pin ids offered to setup: negative, a hardware pin, an unregistered
\* pseudo-pin (>= 64) and a registered one.
PinIds == {-1, 17, 70, 100}
\* Pseudo-pins some other node has registered (wiringPiFindNode finds them).
RegisteredPins == {100, 101}
wiringPiFindNode(id) == id \in RegisteredPins

\* Mutant: only negative ids are reported invalid.
CHECK_PIN_negativeOnly(id) == id < 0

\* Mutant: every pin is validated and configured whatever the capabilities.
UsedRoles_all(re, m8) == Roles

\* CHECK_PIN(id): the condition under which the pin is reported invalid.
CHECK_PIN(id) == id < 0 \/ (id >= 64 /\ ~wiringPiFindNode(id))

\* The pins setup validates and configures.
UsedRoles(re, m8) ==
    {"RS", "E", "DB7", "DB6", "DB5", "DB4"}
        \cup (IF re THEN {"RW"} ELSE {})
        \cup (IF m8 THEN {"DB3", "DB2", "DB1", "DB0"} ELSE {})

\* Mutant: the 8-bit write handler is installed whatever the capability.
InstalledWrite_always8(m8) == "W8"

\* Mutant: the node starts in 8-bit width whatever the capability.
InitialMode8_always8(m8) == TRUE

\* .mode8 = mode8Enabled
InitialMode8(m8) == m8

\* The handlers setup installs for a configuration.
InstalledWrite(m8) == IF m8 THEN "W8" ELSE "W4"
InstalledRead(re, m8) == IF ~re THEN "none" ELSE IF m8 THEN "R8" ELSE "R4"

\* Preconditions: one role r is given the id `id`, every other role the
\* hardware pin 17 (when id is 17 itself the role makes no difference, and
\* RS stands for all).
hd44780Setup_Check ==
    /\ pc = "start"
    /\ \E re \in BOOLEAN, m8 \in BOOLEAN, r \in Roles, id \in PinIds :
         LET pinId(q) == IF q = r THEN id ELSE 17
             fail_preconditions == \E q \in UsedRoles(re, m8) : CHECK_PIN(pinId(q))
         IN  /\ id = 17 => r = "RS"
             /\ readEnabled' = re
             /\ mode8Enabled' = m8
             /\ cur' = [NoCall EXCEPT !.kind = "setup", !.role = r, !.id = id]
             /\ IF fail_preconditions
                   THEN /\ pc' = "failed"
                        /\ setupStatus' = "EXIT_FAILURE"
                   ELSE /\ pc' = "setup_node"
                        /\ setupStatus' = "none"
    /\ UNCHANGED <<clock, pinVars, node, dataStruct, nodeDigitalWrite, nodeDigitalRead,
                   mode8, operation_end, argVars, data, waitVars, nops, prev>>

\* node = wiringPiNewNode(pinBase, 2): on NULL the error is printed and the
\* code goes on.
hd44780Setup_NewNode ==
    /\ pc = "setup_node"
    /\ \E ok \in BOOLEAN : node' = IF ok THEN "new" ELSE "null"
    /\ pc' = "setup_alloc"
    /\ UNCHANGED <<clock, pinVars, setupStatus, dataStruct, nodeDigitalWrite,
                   nodeDigitalRead, readEnabled, mode8Enabled, mode8, operation_end,
                   argVars, data, waitVars, nops, cur, prev>>

\* Mutant: the used pins are idled before the allocation is attempted.
hd44780Setup_Alloc_pinsFirst ==
    /\ pc = "setup_alloc"
    /\ node = "new"
    /\ LET used == UsedRoles(readEnabled, mode8Enabled)
       IN  /\ pud' = [r \in Roles |-> IF r \in used THEN "up" ELSE pud[r]]
           /\ mode' = [r \in Roles |-> IF r \in used THEN "out" ELSE mode[r]]
           /\ level' = [r \in Roles |-> IF r \in used THEN 0 ELSE level[r]]
    /\ \E ok \in BOOLEAN :
         IF ok
           THEN /\ dataStruct' = "alloc"
                /\ mode8' = InitialMode8(mode8Enabled)
                /\ operation_end' = [tv_sec |-> 0, tv_nsec |-> 0]
                /\ pc' = "setup_pins"
                /\ UNCHANGED setupStatus
           ELSE /\ setupStatus' = "EXIT_FAILURE"
                /\ pc' = "failed"
                /\ UNCHANGED <<dataStruct, mode8, operation_end>>
    /\ UNCHANGED <<clock, node, nodeDigitalWrite, nodeDigitalRead, readEnabled,
                   mode8Enabled, argVars, data, waitVars, nops, cur, prev>>

\* node->dataStruct = malloc(...); memcpy of the initial record.  With node
\* NULL the store through it is undefined: the process faults, or the store
\* lands somewhere and setup goes on.
hd44780Setup_Alloc ==
    /\ pc = "setup_alloc"
    /\ \/ /\ node = "null"
          /\ pc' = "crashed"
          /\ UNCHANGED <<setupStatus, dataStruct, mode8, operation_end>>
       \/ \E ok \in BOOLEAN :
            IF ok
              THEN /\ dataStruct' = "alloc"
                   /\ mode8' = InitialMode8(mode8Enabled)
                   /\ operation_end' = [tv_sec |-> 0, tv_nsec |-> 0]
                   /\ pc' = "setup_pins"
                   /\ UNCHANGED setupStatus
              ELSE /\ setupStatus' = "EXIT_FAILURE"
                   /\ pc' = "failed"
                   /\ UNCHANGED <<dataStruct, mode8, operation_end>>
    /\ UNCHANGED <<clock, pinVars, node, nodeDigitalWrite, nodeDigitalRead, readEnabled,
                   mode8Enabled, argVars, data, waitVars, nops, cur, prev>>

\* setupPin(pin) for every used pin: pull-up, output, low.  With
\* mode8Enabled the handlers are installed here and setup returns.
hd44780Setup_Pins ==
    /\ pc = "setup_pins"
    /\ LET used == UsedRoles(readEnabled, mode8Enabled)
       IN  /\ pud' = [r \in Roles |-> IF r \in used THEN "up" ELSE pud[r]]
           /\ mode' = [r \in Roles |-> IF r \in used THEN "out" ELSE mode[r]]
           /\ level' = [r \in Roles |-> IF r \in used THEN 0 ELSE level[r]]
    /\ IF mode8Enabled
         THEN /\ nodeDigitalWrite' = InstalledWrite(mode8Enabled)
              /\ nodeDigitalRead' = InstalledRead(readEnabled, mode8Enabled)
              /\ setupStatus' = "EXIT_SUCCESS"
              /\ pc' = "idle"
         ELSE /\ pc' = "prime_start"
              /\ UNCHANGED <<nodeDigitalWrite, nodeDigitalRead, setupStatus>>
    /\ UNCHANGED <<clock, node, dataStruct, readEnabled, mode8Enabled, mode8,
                   operation_end, argVars, data, waitVars, nops, cur, prev>>

\* writeCycleStart(pinE)
hd44780Setup_PrimeStart ==
    /\ pc = "prime_start"
    /\ level' = [level EXCEPT !["E"] = 1]
    /\ cur' = [cur EXCEPT !.rises = @ + 1]
    /\ pc' = "prime_data"
    /\ UNCHANGED <<clock, mode, pud, nodeVars, mode8, operation_end, argVars, data,
                   waitVars, nops, prev>>

\* Mutant: the priming pulse raises data line 4 instead of data line 5.
hd44780Setup_PrimeData_line4 ==
    /\ pc = "prime_data"
    /\ level' = [level EXCEPT !["DB4"] = 1]
    /\ pc' = "prime_end"
    /\ UNCHANGED <<clock, mode, pud, nodeVars, mode8, operation_end, argVars, data,
                   waitVars, nops, cur, prev>>

\* digitalWrite(pinDB5, HIGH)
hd44780Setup_PrimeData ==
    /\ pc = "prime_data"
    /\ level' = [level EXCEPT !["DB5"] = 1]
    /\ pc' = "prime_end"
    /\ UNCHANGED <<clock, mode, pud, nodeVars, mode8, operation_end, argVars, data,
                   waitVars, nops, cur, prev>>

\* writeCycleEnd(pinE)
hd44780Setup_PrimeEnd ==
    /\ pc = "prime_end"
    /\ level' = [level EXCEPT !["E"] = 0]
    /\ cur' = [cur EXCEPT !.falls = Append(@, Fall("w", clock + enable_duration))]
    /\ clock' = clock + 2 * enable_duration
    /\ pc' = "prime_clear"
    /\ UNCHANGED <<mode, pud, nodeVars, mode8, operation_end, argVars, data,
                   waitVars, nops, prev>>

\* digitalWrite(pinDB5, LOW); delayMicroseconds(37); install the handlers.
hd44780Setup_PrimeClear ==
    /\ pc = "prime_clear"
    /\ level' = [level EXCEPT !["DB5"] = 0]
    /\ clock' = clock + 37000
    /\ nodeDigitalWrite' = InstalledWrite(mode8Enabled)
    /\ nodeDigitalRead' = InstalledRead(readEnabled, mode8Enabled)
    /\ setupStatus' = "EXIT_SUCCESS"
    /\ pc' = "idle"
    /\ UNCHANGED <<mode, pud, node, dataStruct, readEnabled, mode8Enabled, mode8,
                   operation_end, argVars, data, waitVars, nops, cur, prev>>

(* ------------------------ pin-level primitives ------------------------- *)

B2I(b) == IF b THEN 1 ELSE 0

\* digitalWrite(pinRS, RS); if (readEnabled) digitalWrite(pinRW, RW);
\* delayNanoseconds(50);
setStatusPins(RS, RW) ==
    /\ level' = [level EXCEPT !["RS"] = B2I(RS),
                              !["RW"] = IF readEnabled THEN B2I(RW) ELSE @]
    /\ clock' = clock + 50

writeCycleStart ==
    /\ level' = [level EXCEPT !["E"] = 1]
    /\ cur' = [cur EXCEPT !.rise1 = IF @ = -1 THEN clock ELSE @, !.rises = @ + 1]
    /\ UNCHANGED clock

writeCycleEnd ==
    /\ level' = [level EXCEPT !["E"] = 0]
    /\ cur' = [cur EXCEPT !.falls = Append(@, Fall("w", clock + enable_duration))]
    /\ clock' = clock + 2 * enable_duration

readCycleStart ==
    /\ level' = [level EXCEPT !["E"] = 1]
    /\ cur' = [cur EXCEPT !.rises = @ + 1]
    /\ clock' = clock + enable_duration

\* Mutant: the cycle end lowers read/write together with enable.
readCycleEnd_dropsRW ==
    /\ level' = [level EXCEPT !["E"] = 0, !["RW"] = 0]
    /\ cur' = [cur EXCEPT !.falls = Append(@, Fall("r", clock))]
    /\ clock' = clock + enable_duration

\* Mutant: the cycle is ended without lowering enable.
readCycleEnd_keepsHigh ==
    /\ level' = level
    /\ cur' = [cur EXCEPT !.falls = Append(@, Fall("r", clock))]
    /\ clock' = clock + enable_duration

readCycleEnd ==
    /\ level' = [level EXCEPT !["E"] = 0]
    /\ cur' = [cur EXCEPT !.falls = Append(@, Fall("r", clock))]
    /\ clock' = clock + enable_duration

\* digitalRead(pinDB[i]) when the controller drives the levels ext (bit i of
\* ext on line i): an input line gives the controller's level, a line the
\* host drives gives back the host's own level.
digitalRead(i, ext) == IF mode[pinDB(i)] = "in" THEN Bit(ext, i) ELSE level[pinDB(i)]

\* Mutant: the lines are sampled lowest line first.
RECURSIVE ShiftIn_lowFirst(_, _, _, _)
ShiftIn_lowFirst(d, i, lo, ext) ==
    IF i < lo THEN d
    ELSE ShiftIn_lowFirst(((d * 2) + B2I(digitalRead(lo + 7 - i, ext) # 0)) % 256,
                          i - 1, lo, ext)

\* for (i = 7; i >= lo; --i) data = (data << 1) | digitalRead(pinDB[i]);
RECURSIVE ShiftIn(_, _, _, _)
ShiftIn(d, i, lo, ext) ==
    IF i < lo THEN d
    ELSE ShiftIn(((d * 2) + B2I(digitalRead(i, ext) # 0)) % 256, i - 1, lo, ext)

\* What the history keeps of one sampling loop over lines 7..lo while the
\* controller offers the levels ext.
Sample(lo, ext) ==
    [rs |-> level["RS"], rw |-> level["RW"], e |-> level["E"], ext |-> ext,
     db |-> [i \in 0..7 |-> IF i >= lo THEN digitalRead(i, ext) ELSE -2]]

\* Mutant: the low nibble is not shifted onto lines 4..7.
DriveData_noShift(lo, v, sh) ==
    [r \in Roles |->
        IF \E i \in lo..7 : r = pinDB(i)
          THEN Bit(v, CHOOSE i \in lo..7 : r = pinDB(i))
          ELSE level[r]]

\* for (i = lo; i < 8; ++i) digitalWrite(pinDB[i], (v >> (i - sh)) & 0b1);
DriveData(lo, v, sh) ==
    [r \in Roles |->
        IF \E i \in lo..7 : r = pinDB(i)
          THEN Bit(v, (CHOOSE i \in lo..7 : r = pinDB(i)) - sh)
          ELSE level[r]]

\* for (i = lo; i < 8; ++i) pinMode(pinDB[i], m);
SetDataMode(lo, m) ==
    [r \in Roles |-> IF \E i \in lo..7 : r = pinDB(i) THEN m ELSE mode[r]]

Max(a, b) == IF a > b THEN a ELSE b

(* ------------------------- the caller's calls -------------------------- *)

LastFall(c) == IF c.falls = <<>> THEN -1 ELSE c.falls[Len(c.falls)].t

Finished(c) ==
    [kind |-> c.kind, pin |-> c.pin, data8 |-> c.data8, encoder |-> c.encoder,
     delay |-> c.delay, lastFall |-> LastFall(c), role |-> c.role, id |-> c.id,
     wdelay |-> IF c.kind = "write" THEN c.delay ELSE prev.wdelay]

\* digitalWrite(pinBase + p, v) dispatched to node->digitalWrite (of the
\* node wiringPiFindNode finds for the pin).
CallWrite ==
    /\ pc = "idle"
    /\ node = "new"
    /\ nodeDigitalWrite # "none"
    /\ nops < MaxOps
    /\ \E p \in {0, 1}, v \in Bytes, g \in Gaps :
         /\ pin' = p
         /\ data' = v
         /\ clock' = clock + g
         /\ cur' = [NoCall EXCEPT !.kind = "write", !.pin = p, !.entryMode8 = mode8]
    /\ data8' = -1
    /\ prev' = Finished(cur)
    /\ pc' = nodeDigitalWrite
    /\ nops' = nops + 1
    /\ polls' = 0
    /\ wakes' = 0
    /\ UNCHANGED <<pinVars, nodeVars, mode8, operation_end, wv, ret>>

\* digitalRead(pinBase + p) dispatched to node->digitalRead.
CallRead ==
    /\ pc = "idle"
    /\ node = "new"
    /\ nodeDigitalRead # "none"
    /\ nops < MaxOps
    /\ \E p \in {0, 1}, g \in Gaps :
         /\ pin' = p
         /\ clock' = clock + g
         /\ cur' = [NoCall EXCEPT !.kind = "read", !.pin = p, !.entryMode8 = mode8]
    /\ data' = -1
    /\ data8' = -1
    /\ prev' = Finished(cur)
    /\ pc' = nodeDigitalRead
    /\ nops' = nops + 1
    /\ polls' = 0
    /\ wakes' = 0
    /\ UNCHANGED <<pinVars, nodeVars, mode8, operation_end, wv, ret>>

(* ------------------------------ busy-wait ------------------------------ *)

\* (operation_end.tv_sec - now.tv_sec) * 1000000000l
\*     + (operation_end.tv_nsec - now.tv_nsec)
Remaining(end, now) ==
    (end.tv_sec - now.tv_sec) * NsPerSec + (end.tv_nsec - now.tv_nsec)

\* Mutant: the blind sleep is taken whatever time remains.
FarAway_always(end, now) == TRUE

\* The condition of the blind sleep in the read-capable wait.
FarAway(end, now) == Remaining(end, now) > BlindSleepThreshold

\* Where the read-capable wait goes after clock_nanosleep returned nonzero
\* (woken early): on, the return value is not looked at.
ReadEnabled_OnWake(again, on) == on

\* Mutant: the sleep is called once (if instead of while).
ReadDisabled_OnWake_once(again, on) == on

\* Where waitWhileBusy_ReadDisabled goes after clock_nanosleep returned
\* nonzero: the while loop calls it again.
ReadDisabled_OnWake(again, on) == again

\* clock_nanosleep(CLOCK_MONOTONIC_RAW, TIMER_ABSTIME, &operation_end, NULL):
\* the instant an early wake happens at, strictly before the deadline.
EarlyWake == clock + ((TsNs(operation_end) - clock) \div 2)

waitWhileBusy_Entry ==
    /\ pc = "wb_entry"
    /\ cur' = [cur EXCEPT !.waiter = wv]
    /\ pc' = IF readEnabled
               THEN IF FarAway(operation_end, clock_gettime) THEN "wb_sleep" ELSE "wb_pinin"
               ELSE "rd_entry"
    /\ UNCHANGED <<clock, pinVars, nodeVars, mode8, operation_end, argVars, data,
                   waitVars, nops, prev>>

\* The single clock_nanosleep of the read-capable wait.
waitWhileBusy_Sleep ==
    /\ pc = "wb_sleep"
    /\ \/ /\ clock' = Max(clock, TsNs(operation_end))
          /\ pc' = "wb_pinin"
       \/ /\ clock < TsNs(operation_end)
          /\ wakes < MaxWakes
          /\ clock' = EarlyWake
          /\ pc' = ReadEnabled_OnWake("wb_sleep", "wb_pinin")
    /\ cur' = IF pc' = "wb_sleep" THEN cur
              ELSE [cur EXCEPT !.slept = Append(@, [deadline |-> operation_end, at |-> clock'])]
    /\ wakes' = IF pc' = "wb_sleep" THEN wakes + 1 ELSE wakes
    /\ UNCHANGED <<pinVars, nodeVars, mode8, operation_end, argVars, data,
                   wv, ret, polls, nops, prev>>

\* pinMode(pinDB[7], INPUT)
waitWhileBusy_PinIn ==
    /\ pc = "wb_pinin"
    /\ mode' = [mode EXCEPT !["DB7"] = "in"]
    /\ pc' = "wb_status"
    /\ UNCHANGED <<clock, level, pud, nodeVars, mode8, operation_end, argVars, data,
                   waitVars, nops, cur, prev>>

\* setStatusPins(nodeData, LOW, HIGH)
waitWhileBusy_Status ==
    /\ pc = "wb_status"
    /\ setStatusPins(FALSE, TRUE)
    /\ pc' = "wb_start"
    /\ UNCHANGED <<mode, pud, nodeVars, mode8, operation_end, argVars, data,
                   waitVars, nops, cur, prev>>

\* readCycleStart before the loop
waitWhileBusy_CycleStart ==
    /\ pc = "wb_start"
    /\ readCycleStart
    /\ pc' = "wb_sample"
    /\ UNCHANGED <<mode, pud, nodeVars, mode8, operation_end, argVars, data,
                   waitVars, nops, prev>>

\* Mutant: the loop is left when the flag is sampled high.
waitWhileBusy_SampleBusy_givesUp ==
    /\ pc = "wb_sample"
    /\ polls < MaxPolls
    /\ digitalRead(7, 128) # 0
    /\ polls' = polls + 1
    /\ pc' = "wb_pinout"
    /\ UNCHANGED <<clock, pinVars, nodeVars, mode8, operation_end, argVars, data,
                   wv, ret, wakes, nops, cur, prev>>

\* while (digitalRead(pinDB[7]) != LOW): the flag is sampled high.
waitWhileBusy_SampleBusy ==
    /\ pc = "wb_sample"
    /\ polls < MaxPolls
    /\ digitalRead(7, 128) # 0
    /\ polls' = polls + 1
    /\ pc' = "wb_loop_end"
    /\ UNCHANGED <<clock, pinVars, nodeVars, mode8, operation_end, argVars, data,
                   wv, ret, wakes, nops, cur, prev>>

\* while (digitalRead(pinDB[7]) != LOW): the flag is sampled low.
waitWhileBusy_SampleReady ==
    /\ pc = "wb_sample"
    /\ digitalRead(7, 0) = 0
    /\ cur' = [cur EXCEPT !.ready = [rises |-> cur.rises, falls |-> Len(cur.falls)]]
    /\ pc' = "wb_pinout"
    /\ UNCHANGED <<clock, pinVars, nodeVars, mode8, operation_end, argVars, data,
                   waitVars, nops, prev>>

\* Mutant: the 4-bit poll iteration omits its dummy full cycle.
waitWhileBusy_LoopEnd_noDummy ==
    /\ pc = "wb_loop_end"
    /\ readCycleEnd
    /\ pc' = "wb_loop_start"
    /\ UNCHANGED <<mode, pud, nodeVars, mode8, operation_end, argVars, data,
                   waitVars, nops, prev>>

\* readCycleEnd at the top of the loop body
waitWhileBusy_LoopEnd ==
    /\ pc = "wb_loop_end"
    /\ readCycleEnd
    /\ pc' = IF wv = 4 THEN "wb_loop_dummy_start" ELSE "wb_loop_start"
    /\ UNCHANGED <<mode, pud, nodeVars, mode8, operation_end, argVars, data,
                   waitVars, nops, prev>>

\* waitWhileBusy_4: full cycle, ignoring second data nibble (rising edge)
waitWhileBusy_4_LoopDummyStart ==
    /\ pc = "wb_loop_dummy_start"
    /\ readCycleStart
    /\ pc' = "wb_loop_dummy_end"
    /\ UNCHANGED <<mode, pud, nodeVars, mode8, operation_end, argVars, data,
                   waitVars, nops, prev>>

\* waitWhileBusy_4: full cycle, ignoring second data nibble (falling edge)
waitWhileBusy_4_LoopDummyEnd ==
    /\ pc = "wb_loop_dummy_end"
    /\ readCycleEnd
    /\ pc' = "wb_loop_start"
    /\ UNCHANGED <<mode, pud, nodeVars, mode8, operation_end, argVars, data,
                   waitVars, nops, prev>>

\* readCycleStart at the bottom of the loop body
waitWhileBusy_LoopStart ==
    /\ pc = "wb_loop_start"
    /\ readCycleStart
    /\ pc' = "wb_sample"
    /\ UNCHANGED <<mode, pud, nodeVars, mode8, operation_end, argVars, data,
                   waitVars, nops, prev>>

\* pinMode(pinDB[7], OUTPUT)
waitWhileBusy_PinOut ==
    /\ pc = "wb_pinout"
    /\ mode' = [mode EXCEPT !["DB7"] = "out"]
    /\ pc' = "wb_end"
    /\ UNCHANGED <<clock, level, pud, nodeVars, mode8, operation_end, argVars, data,
                   waitVars, nops, cur, prev>>

\* Mutant: waitWhileBusy_4 returns without its final full cycle.
waitWhileBusy_End_noTail ==
    /\ pc = "wb_end"
    /\ readCycleEnd
    /\ pc' = ret
    /\ UNCHANGED <<mode, pud, nodeVars, mode8, operation_end, argVars, data,
                   waitVars, nops, prev>>

\* readCycleEnd after the loop; waitWhileBusy_8 returns here.
waitWhileBusy_End ==
    /\ pc = "wb_end"
    /\ readCycleEnd
    /\ pc' = IF wv = 4 THEN "wb_tail_start" ELSE ret
    /\ UNCHANGED <<mode, pud, nodeVars, mode8, operation_end, argVars, data,
                   waitVars, nops, prev>>

\* waitWhileBusy_4: the final full cycle (rising edge)
waitWhileBusy_4_TailStart ==
    /\ pc = "wb_tail_start"
    /\ readCycleStart
    /\ pc' = "wb_tail_end"
    /\ UNCHANGED <<mode, pud, nodeVars, mode8, operation_end, argVars, data,
                   waitVars, nops, prev>>

\* waitWhileBusy_4: the final full cycle (falling edge), then return
waitWhileBusy_4_TailEnd ==
    /\ pc = "wb_tail_end"
    /\ readCycleEnd
    /\ pc' = ret
    /\ UNCHANGED <<mode, pud, nodeVars, mode8, operation_end, argVars, data,
                   waitVars, nops, prev>>

\* clock_gettime(&tsNow); if (timespec_gt(&operation_end, &tsNow)) ...
waitWhileBusy_ReadDisabled_Entry ==
    /\ pc = "rd_entry"
    /\ pc' = IF timespec_gt(operation_end, clock_gettime) THEN "rd_sleep" ELSE ret
    /\ UNCHANGED <<clock, pinVars, nodeVars, mode8, operation_end, argVars, data,
                   waitVars, nops, cur, prev>>

\* while (clock_nanosleep(...)) {}: the call returns 0 once the deadline is
\* reached, or nonzero when woken before it.
waitWhileBusy_ReadDisabled_Sleep ==
    /\ pc = "rd_sleep"
    /\ \/ /\ clock' = Max(clock, TsNs(operation_end))
          /\ pc' = ret
          /\ UNCHANGED wakes
       \/ /\ clock < TsNs(operation_end)
          /\ wakes < MaxWakes
          /\ clock' = EarlyWake
          /\ pc' = ReadDisabled_OnWake("rd_sleep", ret)
          /\ wakes' = wakes + 1
    /\ cur' = IF pc' = "rd_sleep" THEN cur
              ELSE [cur EXCEPT !.slept = Append(@, [deadline |-> operation_end, at |-> clock'])]
    /\ UNCHANGED <<pinVars, nodeVars, mode8, operation_end, argVars, data,
                   wv, ret, polls, nops, prev>>

(* ------------------------------- writes -------------------------------- *)

\* Mutant: register-select is not looked at.
SwitchesTo8_anyRS(RS, d) == HighNibbleMask(d) = 48

\* Mutant: the low six bits are compared instead of the byte.
DelayFor_low6(RS, d) ==
    IF RS THEN extended_busy_delay
    ELSE IF (d % 64) > 3 THEN standard_busy_delay
    ELSE reset_busy_delay

\* Mutant: register-select is not looked at.
DelayFor_noRS(RS, d) ==
    IF d > 3 THEN standard_busy_delay ELSE reset_busy_delay

\* !RS && (data8 & 0xF0) == 0x30
SwitchesTo8(RS, d) == ~RS /\ HighNibbleMask(d) = 48

\* !RS && (data8 & 0xF0) == 0x20
SwitchesTo4(RS, d) == ~RS /\ HighNibbleMask(d) = 32

\* The recovery delay recorded after a write.
DelayFor(RS, d) ==
    IF RS THEN extended_busy_delay
    ELSE IF d > 3 THEN standard_busy_delay
    ELSE reset_busy_delay

\* Mutant: the encoder is chosen by the width the instruction switches to.
hd44780DigitalWrite_8_switchFirst ==
    /\ pc = "W8"
    /\ LET d == ToUint8(data)
           RS == (pin = 0)
           m == IF ~mode8 /\ SwitchesTo8(RS, d) THEN TRUE
                ELSE IF mode8 /\ SwitchesTo4(RS, d) THEN FALSE
                ELSE mode8
       IN  /\ data8' = d
           /\ mode8' = m
           /\ IF ~m
                THEN /\ data' = d
                     /\ pc' = "W4"
                     /\ cur' = [cur EXCEPT !.data8 = d]
                     /\ UNCHANGED <<wv, ret>>
                ELSE /\ pc' = "wb_entry"
                     /\ wv' = 8
                     /\ ret' = "W8_status"
                     /\ cur' = [cur EXCEPT !.data8 = d, !.encoder = 8]
                     /\ UNCHANGED data
    /\ UNCHANGED <<clock, pinVars, nodeVars, operation_end, pin, polls, wakes, nops, prev>>

\* Entry of hd44780DigitalWrite_8: the width flag follows the instruction,
\* then either hd44780DigitalWrite_4 is called and the handler returns, or
\* waitWhileBusy_8 is called.
hd44780DigitalWrite_8 ==
    /\ pc = "W8"
    /\ LET d == ToUint8(data)
           RS == (pin = 0)
       IN  /\ data8' = d
           /\ IF ~mode8
                THEN /\ mode8' = IF SwitchesTo8(RS, d) THEN TRUE ELSE mode8
                     /\ data' = d
                     /\ pc' = "W4"
                     /\ cur' = [cur EXCEPT !.data8 = d]
                     /\ UNCHANGED <<wv, ret>>
                ELSE /\ mode8' = IF SwitchesTo4(RS, d) THEN FALSE ELSE mode8
                     /\ pc' = "wb_entry"
                     /\ wv' = 8
                     /\ ret' = "W8_status"
                     /\ cur' = [cur EXCEPT !.data8 = d, !.encoder = 8]
                     /\ UNCHANGED data
    /\ UNCHANGED <<clock, pinVars, nodeVars, operation_end, pin, polls, wakes, nops, prev>>

\* setStatusPins(nodeData, RS, false)
hd44780DigitalWrite_8_Status ==
    /\ pc = "W8_status"
    /\ setStatusPins(pin = 0, FALSE)
    /\ pc' = "W8_start"
    /\ UNCHANGED <<mode, pud, nodeVars, mode8, operation_end, argVars, data,
                   waitVars, nops, cur, prev>>

hd44780DigitalWrite_8_CycleStart ==
    /\ pc = "W8_start"
    /\ writeCycleStart
    /\ pc' = "W8_data"
    /\ UNCHANGED <<mode, pud, nodeVars, mode8, operation_end, argVars, data,
                   waitVars, nops, prev>>

\* for (i = 0; i < 8; ++i) digitalWrite(pinDB[i], (data8 >> i) & 0b1);
hd44780DigitalWrite_8_Data ==
    /\ pc = "W8_data"
    /\ level' = DriveData(0, data8, 0)
    /\ pc' = "W8_end"
    /\ UNCHANGED <<clock, mode, pud, nodeVars, mode8, operation_end, argVars, data,
                   waitVars, nops, cur, prev>>

hd44780DigitalWrite_8_CycleEnd ==
    /\ pc = "W8_end"
    /\ writeCycleEnd
    /\ pc' = "W8_deadline"
    /\ UNCHANGED <<mode, pud, nodeVars, mode8, operation_end, argVars, data,
                   waitVars, nops, prev>>

\* set expected end time
hd44780DigitalWrite_8_Deadline ==
    /\ pc = "W8_deadline"
    /\ LET delay == DelayFor(pin = 0, data8)
       IN  /\ operation_end' = timespec_add(clock_gettime, delay)
           /\ cur' = [cur EXCEPT !.delay = delay]
    /\ pc' = "idle"
    /\ UNCHANGED <<clock, pinVars, nodeVars, mode8, argVars, data, waitVars, nops, prev>>

\* Entry of hd44780DigitalWrite_4: waitWhileBusy_4 is called.
hd44780DigitalWrite_4 ==
    /\ pc = "W4"
    /\ data8' = ToUint8(data)
    /\ cur' = [cur EXCEPT !.data8 = ToUint8(data), !.encoder = 4]
    /\ pc' = "wb_entry"
    /\ wv' = 4
    /\ ret' = "W4_status"
    /\ UNCHANGED <<clock, pinVars, nodeVars, mode8, operation_end, pin, data,
                   polls, wakes, nops, prev>>

hd44780DigitalWrite_4_Status ==
    /\ pc = "W4_status"
    /\ setStatusPins(pin = 0, FALSE)
    /\ pc' = "W4_start1"
    /\ UNCHANGED <<mode, pud, nodeVars, mode8, operation_end, argVars, data,
                   waitVars, nops, cur, prev>>

hd44780DigitalWrite_4_CycleStart1 ==
    /\ pc = "W4_start1"
    /\ writeCycleStart
    /\ pc' = "W4_data1"
    /\ UNCHANGED <<mode, pud, nodeVars, mode8, operation_end, argVars, data,
                   waitVars, nops, prev>>

\* for (i = 4; i < 8; ++i) digitalWrite(pinDB[i], (data8 >> i) & 0b1);
hd44780DigitalWrite_4_Data1 ==
    /\ pc = "W4_data1"
    /\ level' = DriveData(4, data8, 0)
    /\ pc' = "W4_end1"
    /\ UNCHANGED <<clock, mode, pud, nodeVars, mode8, operation_end, argVars, data,
                   waitVars, nops, cur, prev>>

hd44780DigitalWrite_4_CycleEnd1 ==
    /\ pc = "W4_end1"
    /\ writeCycleEnd
    /\ pc' = "W4_start2"
    /\ UNCHANGED <<mode, pud, nodeVars, mode8, operation_end, argVars, data,
                   waitVars, nops, prev>>

hd44780DigitalWrite_4_CycleStart2 ==
    /\ pc = "W4_start2"
    /\ writeCycleStart
    /\ pc' = "W4_data2"
    /\ UNCHANGED <<mode, pud, nodeVars, mode8, operation_end, argVars, data,
                   waitVars, nops, prev>>

\* for (i = 4; i < 8; ++i) digitalWrite(pinDB[i], (data8 >> (i - 4)) & 0b1);
hd44780DigitalWrite_4_Data2 ==
    /\ pc = "W4_data2"
    /\ level' = DriveData(4, data8, 4)
    /\ pc' = "W4_end2"
    /\ UNCHANGED <<clock, mode, pud, nodeVars, mode8, operation_end, argVars, data,
                   waitVars, nops, cur, prev>>

hd44780DigitalWrite_4_CycleEnd2 ==
    /\ pc = "W4_end2"
    /\ writeCycleEnd
    /\ pc' = "W4_deadline"
    /\ UNCHANGED <<mode, pud, nodeVars, mode8, operation_end, argVars, data,
                   waitVars, nops, prev>>

\* set expected end time
hd44780DigitalWrite_4_Deadline ==
    /\ pc = "W4_deadline"
    /\ LET delay == DelayFor(pin = 0, data8)
       IN  /\ operation_end' = timespec_add(clock_gettime, delay)
           /\ cur' = [cur EXCEPT !.delay = delay]
    /\ pc' = "idle"
    /\ UNCHANGED <<clock, pinVars, nodeVars, mode8, argVars, data, waitVars, nops, prev>>

(* -------------------------------- reads -------------------------------- *)

\* Entry of hd44780DigitalRead_8.
hd44780DigitalRead_8 ==
    /\ pc = "R8"
    /\ data' = 0
    /\ IF ~mode8
         THEN /\ pc' = "R4"
              /\ UNCHANGED <<wv, ret, cur>>
         ELSE /\ cur' = [cur EXCEPT !.encoder = 8]
              /\ IF pin = 0
                   THEN /\ pc' = "wb_entry"
                        /\ wv' = 8
                        /\ ret' = "R8_status"
                   ELSE /\ pc' = "R8_status"
                        /\ UNCHANGED <<wv, ret>>
    /\ UNCHANGED <<clock, pinVars, nodeVars, mode8, operation_end, argVars,
                   polls, wakes, nops, prev>>

\* setStatusPins(nodeData, pin == pinBase, true)
hd44780DigitalRead_8_Status ==
    /\ pc = "R8_status"
    /\ setStatusPins(pin = 0, TRUE)
    /\ pc' = "R8_pinin"
    /\ UNCHANGED <<mode, pud, nodeVars, mode8, operation_end, argVars, data,
                   waitVars, nops, cur, prev>>

\* for (i = 0; i < 8; ++i) pinMode(pinDB[i], INPUT);
hd44780DigitalRead_8_PinIn ==
    /\ pc = "R8_pinin"
    /\ mode' = SetDataMode(0, "in")
    /\ pc' = "R8_start"
    /\ UNCHANGED <<clock, level, pud, nodeVars, mode8, operation_end, argVars, data,
                   waitVars, nops, cur, prev>>

hd44780DigitalRead_8_CycleStart ==
    /\ pc = "R8_start"
    /\ readCycleStart
    /\ pc' = "R8_sample"
    /\ UNCHANGED <<mode, pud, nodeVars, mode8, operation_end, argVars, data,
                   waitVars, nops, prev>>

\* for (i = 7; i >= 0; --i) data = (data << 1) | digitalRead(pinDB[i]);
hd44780DigitalRead_8_Sample ==
    /\ pc = "R8_sample"
    /\ \E hi \in SampleNibbles, lo \in SampleNibbles :
         /\ data' = ShiftIn(data, 7, 0, hi * 16 + lo)
         /\ cur' = [cur EXCEPT !.samples = Append(@, Sample(0, hi * 16 + lo))]
    /\ pc' = "R8_end"
    /\ UNCHANGED <<clock, pinVars, nodeVars, mode8, operation_end, pin, data8,
                   waitVars, nops, prev>>

hd44780DigitalRead_8_CycleEnd ==
    /\ pc = "R8_end"
    /\ readCycleEnd
    /\ pc' = "R8_pinout"
    /\ UNCHANGED <<mode, pud, nodeVars, mode8, operation_end, argVars, data,
                   waitVars, nops, prev>>

\* Mutant: only data lines 4..7 are switched back to output.
hd44780DigitalRead_8_PinOut_upperOnly ==
    /\ pc = "R8_pinout"
    /\ mode' = SetDataMode(4, "out")
    /\ pc' = "idle"
    /\ UNCHANGED <<clock, level, pud, nodeVars, mode8, operation_end, argVars, data,
                   waitVars, nops, cur, prev>>

\* for (i = 0; i < 8; ++i) pinMode(pinDB[i], OUTPUT); return data;
hd44780DigitalRead_8_PinOut ==
    /\ pc = "R8_pinout"
    /\ mode' = SetDataMode(0, "out")
    /\ pc' = "idle"
    /\ UNCHANGED <<clock, level, pud, nodeVars, mode8, operation_end, argVars, data,
                   waitVars, nops, cur, prev>>

\* Mutant: the busy-wait is called whatever the target.
hd44780DigitalRead_4_alwaysWaits ==
    /\ pc = "R4"
    /\ data' = 0
    /\ cur' = [cur EXCEPT !.encoder = 4]
    /\ mode' = SetDataMode(4, "in")
    /\ pc' = "wb_entry"
    /\ wv' = 4
    /\ ret' = "R4_status"
    /\ UNCHANGED <<clock, level, pud, nodeVars, mode8, operation_end, argVars,
                   polls, wakes, nops, prev>>

\* Entry of hd44780DigitalRead_4: lines 4..7 to input, then the target.
hd44780DigitalRead_4 ==
    /\ pc = "R4"
    /\ data' = 0
    /\ cur' = [cur EXCEPT !.encoder = 4]
    /\ mode' = SetDataMode(4, "in")
    /\ IF pin = 0
         THEN /\ pc' = "wb_entry"
              /\ wv' = 4
              /\ ret' = "R4_status"
         ELSE /\ pc' = "R4_status"
              /\ UNCHANGED <<wv, ret>>
    /\ UNCHANGED <<clock, level, pud, nodeVars, mode8, operation_end, argVars,
                   polls, wakes, nops, prev>>

hd44780DigitalRead_4_Status ==
    /\ pc = "R4_status"
    /\ setStatusPins(pin = 0, TRUE)
    /\ pc' = "R4_start1"
    /\ UNCHANGED <<mode, pud, nodeVars, mode8, operation_end, argVars, data,
                   waitVars, nops, cur, prev>>

hd44780DigitalRead_4_CycleStart1 ==
    /\ pc = "R4_start1"
    /\ readCycleStart
    /\ pc' = "R4_sample1"
    /\ UNCHANGED <<mode, pud, nodeVars, mode8, operation_end, argVars, data,
                   waitVars, nops, prev>>

\* for (i = 7; i >= 4; --i) data = (data << 1) | (bool)digitalRead(pinDB[i]);
hd44780DigitalRead_4_Sample1 ==
    /\ pc = "R4_sample1"
    /\ \E hi \in SampleNibbles :
         /\ data' = ShiftIn(data, 7, 4, hi * 16)
         /\ cur' = [cur EXCEPT !.samples = Append(@, Sample(4, hi * 16))]
    /\ pc' = "R4_end1"
    /\ UNCHANGED <<clock, pinVars, nodeVars, mode8, operation_end, pin, data8,
                   waitVars, nops, prev>>

hd44780DigitalRead_4_CycleEnd1 ==
    /\ pc = "R4_end1"
    /\ readCycleEnd
    /\ pc' = "R4_start2"
    /\ UNCHANGED <<mode, pud, nodeVars, mode8, operation_end, argVars, data,
                   waitVars, nops, prev>>

hd44780DigitalRead_4_CycleStart2 ==
    /\ pc = "R4_start2"
    /\ readCycleStart
    /\ pc' = "R4_sample2"
    /\ UNCHANGED <<mode, pud, nodeVars, mode8, operation_end, argVars, data,
                   waitVars, nops, prev>>

hd44780DigitalRead_4_Sample2 ==
    /\ pc = "R4_sample2"
    /\ \E lo \in SampleNibbles :
         /\ data' = ShiftIn(data, 7, 4, lo * 16)
         /\ cur' = [cur EXCEPT !.samples = Append(@, Sample(4, lo * 16))]
    /\ pc' = "R4_end2"
    /\ UNCHANGED <<clock, pinVars, nodeVars, mode8, operation_end, pin, data8,
                   waitVars, nops, prev>>

hd44780DigitalRead_4_CycleEnd2 ==
    /\ pc = "R4_end2"
    /\ readCycleEnd
    /\ pc' = "R4_pinout"
    /\ UNCHANGED <<mode, pud, nodeVars, mode8, operation_end, argVars, data,
                   waitVars, nops, prev>>

\* for (i = 4; i < 8; ++i) pinMode(pinDB[i], OUTPUT); return data;
hd44780DigitalRead_4_PinOut ==
    /\ pc = "R4_pinout"
    /\ mode' = SetDataMode(4, "out")
    /\ pc' = "idle"
    /\ UNCHANGED <<clock, level, pud, nodeVars, mode8, operation_end, argVars, data,
                   waitVars, nops, cur, prev>>

(* ---------------------------- specification ---------------------------- *)

Next ==
    \/ hd44780Setup_Check
    \/ hd44780Setup_NewNode
    \/ hd44780Setup_Alloc
    \/ hd44780Setup_Pins
    \/ hd44780Setup_PrimeStart
    \/ hd44780Setup_PrimeData
    \/ hd44780Setup_PrimeEnd
    \/ hd44780Setup_PrimeClear
    \/ CallWrite
    \/ CallRead
    \/ waitWhileBusy_Entry
    \/ waitWhileBusy_Sleep
    \/ waitWhileBusy_PinIn
    \/ waitWhileBusy_Status
    \/ waitWhileBusy_CycleStart
    \/ waitWhileBusy_SampleBusy
    \/ waitWhileBusy_SampleReady
    \/ waitWhileBusy_LoopEnd
    \/ waitWhileBusy_4_LoopDummyStart
    \/ waitWhileBusy_4_LoopDummyEnd
    \/ waitWhileBusy_LoopStart
    \/ waitWhileBusy_PinOut
    \/ waitWhileBusy_End
    \/ waitWhileBusy_4_TailStart
    \/ waitWhileBusy_4_TailEnd
    \/ waitWhileBusy_ReadDisabled_Entry
    \/ waitWhileBusy_ReadDisabled_Sleep
    \/ hd44780DigitalWrite_8
    \/ hd44780DigitalWrite_8_Status
    \/ hd44780DigitalWrite_8_CycleStart
    \/ hd44780DigitalWrite_8_Data
    \/ hd44780DigitalWrite_8_CycleEnd
    \/ hd44780DigitalWrite_8_Deadline
    \/ hd44780DigitalWrite_4
    \/ hd44780DigitalWrite_4_Status
    \/ hd44780DigitalWrite_4_CycleStart1
    \/ hd44780DigitalWrite_4_Data1
    \/ hd44780DigitalWrite_4_CycleEnd1
    \/ hd44780DigitalWrite_4_CycleStart2
    \/ hd44780DigitalWrite_4_Data2
    \/ hd44780DigitalWrite_4_CycleEnd2
    \/ hd44780DigitalWrite_4_Deadline
    \/ hd44780DigitalRead_8
    \/ hd44780DigitalRead_8_Status
    \/ hd44780DigitalRead_8_PinIn
    \/ hd44780DigitalRead_8_CycleStart
    \/ hd44780DigitalRead_8_Sample
    \/ hd44780DigitalRead_8_CycleEnd
    \/ hd44780DigitalRead_8_PinOut
    \/ hd44780DigitalRead_4
    \/ hd44780DigitalRead_4_Status
    \/ hd44780DigitalRead_4_CycleStart1
    \/ hd44780DigitalRead_4_Sample1
    \/ hd44780DigitalRead_4_CycleEnd1
    \/ hd44780DigitalRead_4_CycleStart2
    \/ hd44780DigitalRead_4_Sample2
    \/ hd44780DigitalRead_4_CycleEnd2
    \/ hd44780DigitalRead_4_PinOut

Spec == Init /\ [][Next]_vars

\* The calling thread keeps running, the busy flag is sampled high at most
\* MaxPolls times in a row and a sleep is woken early at most MaxWakes
\* times: the busy line is eventually sampled low, and clock_nanosleep
\* eventually reports the deadline reached.
LiveSpec == Spec /\ WF_vars(Next)

(* ---------------------- command instruction helpers -------------------- *)

\* a | b and a & b on bytes, from bit i up
RECURSIVE BitOr(_, _, _)
BitOr(a, b, i) ==
    IF i > 7 THEN 0
    ELSE (IF Bit(a, i) = 1 \/ Bit(b, i) = 1 THEN Pow2(i) ELSE 0) + BitOr(a, b, i + 1)

RECURSIVE BitAnd(_, _, _)
BitAnd(a, b, i) ==
    IF i > 7 THEN 0
    ELSE (IF Bit(a, i) = 1 /\ Bit(b, i) = 1 THEN Pow2(i) ELSE 0) + BitAnd(a, b, i + 1)

Or3(a, b, c) == BitOr(BitOr(a, b, 0), c, 0)
Or4(a, b, c, d) == BitOr(Or3(a, b, c), d, 0)

\* Mutant: the address is not masked to six bits.
hd44780CMD_SetCGRAM_noMask(address) == BitOr(64, address, 0)

hd44780CMD_Clear == 1
hd44780CMD_Home == 2
hd44780CMD_EntryMode(decrement, shift) == Or3(4, B2I(decrement) * 2, B2I(shift) * 1)
hd44780CMD_OnOff(display, cursor, blink) == Or4(8, B2I(display) * 4, B2I(cursor) * 2, B2I(blink) * 1)
hd44780CMD_Shift(cursorDisplay, leftRight) == Or3(16, B2I(cursorDisplay) * 8, B2I(leftRight) * 4)
hd44780CMD_FnSet(dataLength, displayLines, font) == Or4(32, B2I(dataLength) * 16, B2I(displayLines) * 8, B2I(font) * 4)
hd44780CMD_SetCGRAM(address) == BitOr(64, BitAnd(address, 63, 0), 0)
hd44780CMD_SetDDRAM(address) == BitOr(128, BitAnd(address, 127, 0), 0)

\* The values of a uint8_t address argument.
Addresses == 0..255

\* A caller that calls one constructor: the state before the call.
InitCMD ==
    /\ pc = "cmd"
    /\ clock = StartClock
    /\ level = [r \in Roles |-> -1]
    /\ mode = [r \in Roles |-> "unset"]
    /\ pud = [r \in Roles |-> "unset"]
    /\ setupStatus = "none"
    /\ node = "none"
    /\ dataStruct = "null"
    /\ nodeDigitalWrite = "none"
    /\ nodeDigitalRead = "none"
    /\ readEnabled = FALSE
    /\ mode8Enabled = FALSE
    /\ mode8 = FALSE
    /\ operation_end = [tv_sec |-> 0, tv_nsec |-> 0]
    /\ pin = -1
    /\ data8 = -1
    /\ data = -1
    /\ wv = 0
    /\ ret = "none"
    /\ polls = 0
    /\ wakes = 0
    /\ nops = 0
    /\ cur = NoCall
    /\ prev = NoPrev

\* The constructor `kind` is called with `args` and returns `byte`.
CMDReturns(kind, args, byte) ==
    /\ pc = "cmd"
    /\ pc' = "cmd_ret"
    /\ data' = byte
    /\ cur' = [NoCall EXCEPT !.kind = kind, !.args = args]
    /\ UNCHANGED <<clock, pinVars, nodeVars, mode8, operation_end, argVars,
                   waitVars, nops, prev>>

Call_hd44780CMD_Clear == CMDReturns("Clear", <<>>, hd44780CMD_Clear)
Call_hd44780CMD_Home == CMDReturns("Home", <<>>, hd44780CMD_Home)
Call_hd44780CMD_EntryMode ==
    \E a \in BOOLEAN, b \in BOOLEAN :
        CMDReturns("EntryMode", <<a, b>>, hd44780CMD_EntryMode(a, b))
Call_hd44780CMD_OnOff ==
    \E a \in BOOLEAN, b \in BOOLEAN, c \in BOOLEAN :
        CMDReturns("OnOff", <<a, b, c>>, hd44780CMD_OnOff(a, b, c))
Call_hd44780CMD_Shift ==
    \E a \in BOOLEAN, b \in BOOLEAN :
        CMDReturns("Shift", <<a, b>>, hd44780CMD_Shift(a, b))
Call_hd44780CMD_FnSet ==
    \E a \in BOOLEAN, b \in BOOLEAN, c \in BOOLEAN :
        CMDReturns("FnSet", <<a, b, c>>, hd44780CMD_FnSet(a, b, c))
Call_hd44780CMD_SetCGRAM ==
    \E a \in Addresses : CMDReturns("SetCGRAM", <<a>>, hd44780CMD_SetCGRAM(a))
Call_hd44780CMD_SetDDRAM ==
    \E a \in Addresses : CMDReturns("SetDDRAM", <<a>>, hd44780CMD_SetDDRAM(a))

NextCMD ==
    \/ Call_hd44780CMD_Clear
    \/ Call_hd44780CMD_Home
    \/ Call_hd44780CMD_EntryMode
    \/ Call_hd44780CMD_OnOff
    \/ Call_hd44780CMD_Shift
    \/ Call_hd44780CMD_FnSet
    \/ Call_hd44780CMD_SetCGRAM
    \/ Call_hd44780CMD_SetDDRAM

SpecCMD == InitCMD /\ [][NextCMD]_vars

(* ------------------------------- claims -------------------------------- *)

\* The node exists and its handlers are installed.
Installed == nodeDigitalWrite # "none"

\* A call of the given kind has returned and nothing was called since.
Returned(kind) == pc = "idle" /\ cur.kind = kind

\* The enable falling edges a call made through writeCycleEnd.
IsWriteFall(f) == f.cyc = "w"
WriteFalls(c) == SelectSeq(c.falls, IsWriteFall)

\* The encoder and busy-wait variant of a width.
Variant(m8) == IF m8 THEN 8 ELSE 4

\* C1: after setup the width flag goes FourBit->EightBit only in a write to
\* pinBase+1 whose byte has high nibble 0x3, and EightBit->FourBit only in a
\* write to pinBase+1 whose byte has high nibble 0x2; memory writes, other
\* instructions and reads leave it as it is.
C1_WidthChangesOnlyOnFunctionSet ==
    [][(Installed /\ mode8' # mode8) =>
          /\ cur.kind = "write"
          /\ pin = 1
          /\ HighNibbleMask(ToUint8(data)) = (IF mode8' THEN 48 ELSE 32)]_vars

\* C1 witness: an 8-bit capable node went to FourBit on 0x28 and back to
\* EightBit on 0x30.
C1_Witness ==
    /\ Returned("write")
    /\ prev.kind = "write" /\ prev.pin = 1 /\ prev.data8 = 40
    /\ cur.pin = 1 /\ cur.data8 = 48
    /\ ~cur.entryMode8 /\ mode8

\* C2 as stated: the byte that changes the width is transmitted by the
\* encoder, after the busy-wait, of the width it switches to.
C2_Original ==
    (Returned("write") /\ cur.entryMode8 # mode8) =>
        /\ cur.encoder = Variant(mode8)
        /\ cur.waiter = Variant(mode8)

\* C2 amended: the flag is changed before the byte is transmitted, but the
\* byte that changes the width is transmitted by the encoder, after the
\* busy-wait, of the width in force when the write was called (two write
\* strobes when leaving FourBit, one when leaving EightBit).
C2_Amended ==
    (cur.kind = "write" /\ cur.entryMode8 # mode8) =>
        /\ cur.encoder \in {0, Variant(cur.entryMode8)}
        /\ cur.waiter \in {0, Variant(cur.entryMode8)}
        /\ pc = "idle" =>
             /\ cur.encoder = Variant(cur.entryMode8)
             /\ cur.waiter = Variant(cur.entryMode8)
             /\ Len(WriteFalls(cur)) = (IF cur.entryMode8 THEN 1 ELSE 2)

\* C2 witness: a write that took the node from FourBit to EightBit has
\* returned.
C2_Witness == Returned("write") /\ ~cur.entryMode8 /\ mode8

\* The bytes FunctionSet(eightBit = true, ...) can be.
IsFnSet8(b) == HighNibbleMask(b) = 48 /\ b % 4 = 0

\* C3 as stated: after setup with readEnabled and without mode8Enabled, an
\* instruction write of FunctionSet(eightBit = true) leaves the width flag
\* at EightBit.
C3_Original ==
    (Returned("write") /\ readEnabled /\ ~mode8Enabled /\ prev.kind = "setup"
        /\ cur.pin = 1 /\ IsFnSet8(cur.data8)) => mode8

\* C3 amended: after setup with readEnabled and without mode8Enabled, an
\* instruction write of FunctionSet(eightBit = true) leaves the width flag
\* at FourBit, and the very next write is transmitted by the 4-bit encoder:
\* two strobe cycles that drive lines 4..7 and leave lines 0..3 untouched.
C3_Amended ==
    (readEnabled /\ ~mode8Enabled) =>
        /\ (Returned("write") /\ cur.pin = 1 /\ IsFnSet8(cur.data8)) => ~mode8
        /\ (Returned("write") /\ prev.kind = "write" /\ prev.pin = 1
                /\ IsFnSet8(prev.data8)) =>
             /\ ~mode8
             /\ cur.encoder = 4
             /\ Len(WriteFalls(cur)) = 2
             /\ \A i \in 0..3 : level[pinDB(i)] = -1 /\ mode[pinDB(i)] = "unset"

\* C3 witness: the write after the FunctionSet(eightBit = true) write has
\* returned, on a node set up with readEnabled and without mode8Enabled.
C3_Witness ==
    /\ Returned("write") /\ readEnabled /\ ~mode8Enabled
    /\ prev.kind = "write" /\ prev.pin = 1 /\ IsFnSet8(prev.data8)

\* C4: in every state from setup on, the active width flag is set only if
\* the 8-bit capability flag is.
C4_Mode8OnlyIfEnabled == mode8 => mode8Enabled

\* C4 witness: on a node without the 8-bit capability, a read and then an
\* instruction write of a function-set to 8 bit have returned.
C4_Witness ==
    /\ Returned("write") /\ ~mode8Enabled
    /\ prev.kind = "read"
    /\ cur.pin = 1 /\ IsFnSet8(cur.data8)

\* The deadline a write that has just returned must have left, had it
\* chosen the delay d.
DeadlineIs(d) == operation_end = timespec_add(clock_gettime, d)

\* C5 as stated: an instruction write records the long delay when the low
\* six bits of the byte are <= 3 and the short delay otherwise.
C5_Original ==
    (Returned("write") /\ cur.pin = 1) =>
        LET d == IF cur.data8 % 64 <= 3 THEN reset_busy_delay ELSE standard_busy_delay
        IN  cur.delay = d /\ DeadlineIs(d)

\* C5 amended: an instruction write, in both widths, records the long delay
\* (1.52 ms) when the whole byte is <= 3 and the short delay (37 us) for
\* every other instruction byte, 0x40, 0x80 and 0xC0 included.
C5_Amended ==
    (Returned("write") /\ cur.pin = 1) =>
        LET d == IF cur.data8 <= 3 THEN reset_busy_delay ELSE standard_busy_delay
        IN  /\ cur.delay = d
            /\ DeadlineIs(d)
            /\ \A b \in 0..255 :
                 DelayFor(FALSE, b) = IF b <= 3 THEN reset_busy_delay
                                      ELSE standard_busy_delay

\* C5 witness: an instruction write of 0x40 (low six bits zero) has
\* returned from the 8-bit encoder.
C5_Witness == Returned("write") /\ cur.pin = 1 /\ cur.data8 = 64 /\ cur.encoder = 8

\* C6: a memory write, in both widths and whatever the byte, records the
\* extended delay (41 us).
C6_MemoryWriteExtended ==
    (Returned("write") /\ cur.pin = 0) =>
        /\ cur.delay = extended_busy_delay
        /\ DeadlineIs(extended_busy_delay)
        /\ \A b \in 0..255 : DelayFor(TRUE, b) = extended_busy_delay

\* C6 witness: a memory write of the byte 3 has returned from the 4-bit
\* encoder.
C6_Witness == Returned("write") /\ cur.pin = 0 /\ cur.data8 = 3 /\ cur.encoder = 4

\* C7 as stated: once the node record exists, no step lowers the stored
\* deadline.
C7_Original ==
    [][dataStruct = "alloc" => ~timespec_gt(operation_end, operation_end')]_vars

\* C7 amended: in the read-disabled configuration no step lowers the stored
\* deadline; in the read-capable configuration a write may store a deadline
\* earlier than the one it found.
C7_Amended ==
    [][(dataStruct = "alloc" /\ ~readEnabled) =>
          ~timespec_gt(operation_end, operation_end')]_vars

\* C7 witness: read-disabled, a write with the long delay was followed by a
\* write with the short delay, and the deadline carried into tv_sec.
C7_Witness ==
    /\ Returned("write") /\ ~readEnabled
    /\ prev.kind = "write" /\ prev.delay = reset_busy_delay
    /\ cur.delay = standard_busy_delay
    /\ operation_end.tv_sec = 1

\* C8: read-disabled, the first enable rising edge of a write comes no
\* earlier than the last falling edge of the write before it plus that
\* write's delay, and the deadline a write records is no earlier than its
\* own last falling edge plus its delay.
C8_ReadDisabledSpacing ==
    (~readEnabled /\ cur.kind = "write") =>
        /\ (prev.kind = "write" /\ cur.rise1 # -1) =>
              cur.rise1 >= prev.lastFall + TsNs(prev.delay)
        /\ pc = "idle" => TsNs(operation_end) >= LastFall(cur) + TsNs(cur.delay)

\* C8 witness: read-disabled, the second of two writes has raised enable
\* after its sleep was woken early.
C8_Witness ==
    /\ ~readEnabled /\ cur.kind = "write" /\ prev.kind = "write"
    /\ cur.rise1 # -1 /\ wakes >= 1

\* Every sleep the running call has gone past was left at or after its
\* deadline.
SleptToDeadline ==
    \A k \in 1..Len(cur.slept) : cur.slept[k].at >= TsNs(cur.slept[k].deadline)

\* C9 as stated: in the read-disabled and in the read-capable wait,
\* execution never goes past the blind sleep before the deadline.
C9_Original == SleptToDeadline

\* C9 amended: the blind sleep of the read-disabled wait sleeps again when
\* woken early and is never left before the deadline; the read-capable wait
\* calls the sleep once and goes on to poll the busy flag whatever it
\* returned.
C9_Amended ==
    /\ ~readEnabled => SleptToDeadline
    /\ readEnabled => wakes = 0 \/ pc # "wb_sleep"

\* C9 witness: read-disabled, a sleep that was woken early has been left.
C9_Witness == ~readEnabled /\ Len(cur.slept) = 1 /\ wakes >= 1

\* C10: every falling edge a write makes through writeCycleEnd has
\* register-select = (pin == pinBase) and, with read capability,
\* read/write-control low; a write called in EightBit makes one, with line i
\* at bit i; a write called in FourBit makes two, lines 4..7 at bits 4..7 and
\* then at bits 0..3.
C10_WriteEdgesCarryByte ==
    Returned("write") =>
        LET wf == WriteFalls(cur)
        IN  /\ \A k \in 1..Len(wf) :
                 /\ wf[k].rs = B2I(cur.pin = 0)
                 /\ readEnabled => wf[k].rw = 0
            /\ IF cur.entryMode8
                 THEN /\ Len(wf) = 1
                      /\ \A i \in 0..7 : wf[1].db[i] = Bit(cur.data8, i)
                 ELSE /\ Len(wf) = 2
                      /\ \A i \in 4..7 : /\ wf[1].db[i] = Bit(cur.data8, i)
                                         /\ wf[2].db[i] = Bit(cur.data8, i - 4)

\* C10 witness: a memory write of 0xA5 in FourBit, read-capable, has
\* returned after the busy flag was sampled high once.
C10_Witness ==
    /\ Returned("write") /\ readEnabled /\ ~cur.entryMode8
    /\ cur.pin = 0 /\ cur.data8 = 165 /\ polls >= 1

\* The enable falling edges a call made outside its busy-wait.
IsBodyFall(f) == ~f.wait
BodyFalls(c) == SelectSeq(c.falls, IsBodyFall)

\* The nibble the levels sampled on lines 7..4 spell.
NibbleOf(s) == 8 * s.db[7] + 4 * s.db[6] + 2 * s.db[5] + s.db[4]

\* C11: the byte a read returns is rebuilt from the sampled lines.  Called
\* in EightBit: one data strobe cycle, bit i of the result = the level
\* sampled on line i.  Called in FourBit: two data strobe cycles, result =
\* 16 * (levels on lines 7..4 in the first) + (levels on lines 7..4 in the
\* second).  At every sampling enable is high, register-select is
\* (pin == pinBase) and read/write-control is high.
C11_ReadAssemblesSampledLines ==
    Returned("read") =>
        LET s == cur.samples
        IN  /\ \A k \in 1..Len(s) :
                 /\ s[k].rs = B2I(cur.pin = 0)
                 /\ s[k].rw = 1
                 /\ s[k].e = 1
            /\ Len(BodyFalls(cur)) = Len(s)
            /\ IF cur.entryMode8
                 THEN /\ Len(s) = 1
                      /\ \A i \in 0..7 : Bit(data, i) = s[1].db[i]
                 ELSE /\ Len(s) = 2
                      /\ data = 16 * NibbleOf(s[1]) + NibbleOf(s[2])

\* C11 witness: a busy-flag/address read in FourBit has returned 0xA5, the
\* controller having offered 0xA then 0x5 on lines 7..4.
C11_Witness ==
    /\ Returned("read") /\ ~cur.entryMode8 /\ cur.pin = 1
    /\ Len(cur.samples) = 2 /\ data = 165

\* A read in FourBit has returned, the call before it was a write by the
\* 4-bit encoder to the same target, and the simulated controller offered
\* the written byte, high nibble then low nibble, on lines 7..4.
ReadBackOfWrite4 ==
    /\ Returned("read") /\ cur.encoder = 4
    /\ prev.kind = "write" /\ prev.encoder = 4 /\ prev.pin = cur.pin
    /\ Len(cur.samples) = 2
    /\ cur.samples[1].ext = 16 * (prev.data8 \div 16)
    /\ cur.samples[2].ext = 16 * (prev.data8 % 16)

\* C12 as stated: over a simulated controller that drives the lines the
\* host has as inputs (a line the host drives reads back the host's level),
\* a FourBit read of the target just written returns the written byte.
C12_Original == ReadBackOfWrite4 => data = prev.data8

\* C12, what the code does: the round trip holds for the busy-flag/address
\* target; for the memory target waitWhileBusy_4 has put line 7 back to
\* output, so bits 7 and 3 of the result are both the host's own level on
\* line 7, which the write left at bit 3 of the byte.
C12_Line7ReadsHostLatch ==
    ReadBackOfWrite4 =>
        IF cur.pin = 1 THEN data = prev.data8
        ELSE /\ \A i \in {0, 1, 2, 4, 5, 6} : Bit(data, i) = Bit(prev.data8, i)
             /\ Bit(data, 7) = Bit(prev.data8, 3)
             /\ Bit(data, 3) = Bit(prev.data8, 3)

\* C12 witness: a memory read in FourBit, straight after a memory write of
\* 0xA5 and with the controller offering 0xA5, has returned.
C12_Witness == ReadBackOfWrite4 /\ cur.pin = 0 /\ prev.data8 = 165

\* C13: when a successful setup, a write or a read has returned, enable is
\* low; and from the moment setup has configured the enable pin its rising
\* and falling edges strictly alternate within every call (enable is high
\* exactly when the call has made one more rising than falling edge), the
\* busy-wait paths included.
C13_EnableIdleLow ==
    /\ pc = "idle" => level["E"] = 0
    /\ level["E"] # -1 => level["E"] = cur.rises - Len(cur.falls)

\* C13 witness: a memory read in FourBit has returned after its busy-wait
\* sampled the flag high once (six rising and six falling edges).
C13_Witness ==
    /\ Returned("read") /\ cur.pin = 0 /\ cur.encoder = 4 /\ polls >= 1
    /\ cur.rises = 6 /\ Len(cur.falls) = 6

\* The enable falling edges a call made inside its busy-wait.
IsWaitFall(f) == f.wait
WaitFalls(c) == SelectSeq(c.falls, IsWaitFall)

\* C14: a memory read (pinBase) has been through the busy-wait of its width
\* before its first data strobe cycle: every falling edge of the wait comes
\* before every one of the data cycles, and the wait made at least one.  A
\* busy-flag/address read (pinBase + 1) never enters a busy-wait: no sleep,
\* no sample of the busy flag, no time spent waiting, and exactly one
\* strobe cycle (called in EightBit) or two (called in FourBit) by the time
\* it returns, with the deadline reached or not.
C14_OnlyMemoryReadWaits ==
    cur.kind = "read" =>
        IF cur.pin = 0
          THEN /\ pc \notin {"R8", "R4", "wb_entry"} =>
                     cur.waiter = Variant(cur.entryMode8)
               /\ pc \notin WaitLabels \cup {"R8", "R4"} =>
                     Len(WaitFalls(cur)) >= (IF cur.entryMode8 THEN 1 ELSE 2)
               /\ pc \in WaitLabels => Len(BodyFalls(cur)) = 0
               /\ \A j, k \in 1..Len(cur.falls) :
                     (j < k /\ cur.falls[k].wait) => cur.falls[j].wait
               /\ pc = "idle" =>
                     /\ cur.waiter = Variant(cur.entryMode8)
                     /\ Len(BodyFalls(cur)) = (IF cur.entryMode8 THEN 1 ELSE 2)
          ELSE /\ pc \notin WaitLabels
               /\ cur.waiter = 0
               /\ cur.slept = <<>>
               /\ polls = 0
               /\ WaitFalls(cur) = <<>>
               /\ cur.rises <= (IF cur.entryMode8 THEN 1 ELSE 2)
               /\ pc = "idle" =>
                     /\ cur.rises = (IF cur.entryMode8 THEN 1 ELSE 2)
                     /\ Len(cur.falls) = cur.rises

\* C14 witness: a busy-flag/address read in FourBit, called straight after
\* a clear/home-class write, has returned before that write's deadline.
C14_Witness ==
    /\ Returned("read") /\ cur.pin = 1 /\ ~cur.entryMode8
    /\ prev.kind = "write" /\ prev.delay = reset_busy_delay
    /\ clock < TsNs(operation_end)

\* The rising and falling edges the call has made since its busy-wait
\* sampled the busy flag low.
RisesSinceReady(c) == c.rises - c.ready.rises
FallsSinceReady(c) == Len(c.falls) - c.ready.falls

\* The read-capable busy-wait returns in this step.
WaitReturns == readEnabled /\ pc \in WaitLabels /\ pc' \notin WaitLabels

\* C15 as stated: in both widths, between the sample that found the busy
\* flag low and its return, the read-capable wait makes exactly one rising
\* edge of enable, followed by a falling edge, and it leaves the deadline
\* and the width flag as they were.
C15_Original ==
    [][/\ pc \in WaitLabels => (operation_end' = operation_end /\ mode8' = mode8)
       /\ WaitReturns => (RisesSinceReady(cur') = 1 /\ level'["E"] = 0)]_vars

\* C15 amended: once the busy flag is sampled low the read-capable wait
\* ends the cycle the sample was taken in (one falling edge); waitWhileBusy_8
\* then returns without raising enable again, waitWhileBusy_4 makes exactly
\* one further full cycle (one rising, one falling edge) and returns.  No
\* step of the wait changes the deadline or the width flag.
C15_Amended ==
    [][/\ pc \in WaitLabels => (operation_end' = operation_end /\ mode8' = mode8)
       /\ WaitReturns =>
            /\ level'["E"] = 0
            /\ RisesSinceReady(cur') = (IF wv = 4 THEN 1 ELSE 0)
            /\ FallsSinceReady(cur') = (IF wv = 4 THEN 2 ELSE 1)]_vars

\* C15 witness: waitWhileBusy_8 has returned to the 8-bit encoder after it
\* sampled the busy flag high once and then low.
C15_Witness ==
    /\ pc = "W8_status" /\ readEnabled /\ cur.waiter = 8 /\ polls = 1
    /\ cur.ready.rises = 2 /\ cur.rises = 2 /\ Len(cur.falls) = 2

\* No call has configured, written or pulled the pin of role r.
Untouched(r) == level[r] = -1 /\ mode[r] = "unset" /\ pud[r] = "unset"

\* Setup was called with an invalid id (negative, or >= 64 and not a
\* registered pseudo-pin) for a pin it checks.
BadCheckedPin ==
    /\ cur.kind = "setup"
    /\ cur.role \in UsedRoles(readEnabled, mode8Enabled)
    /\ cur.id < 0 \/ (cur.id >= 64 /\ cur.id \notin RegisteredPins)

\* C16: when a pin id setup checks (RS, E, DB4..DB7; RW with readEnabled;
\* DB0..DB3 with mode8Enabled) is negative, or >= 64 and not a registered
\* pseudo-pin, setup has returned EXIT_FAILURE without calling
\* wiringPiNewNode, allocating the record, installing a handler,
\* configuring or writing a pin, or strobing enable.
C16_BadPinFailsClean ==
    BadCheckedPin =>
        /\ pc = "failed"
        /\ setupStatus = "EXIT_FAILURE"
        /\ node = "none"
        /\ dataStruct = "null"
        /\ nodeDigitalWrite = "none" /\ nodeDigitalRead = "none"
        /\ \A r \in Roles : Untouched(r)
        /\ cur.rises = 0 /\ cur.falls = <<>>

\* C16 witness: setup with mode8Enabled was given the unregistered
\* pseudo-pin 70 for data line 0 and has failed.
C16_Witness ==
    /\ pc = "failed" /\ cur.kind = "setup" /\ mode8Enabled
    /\ cur.role = "DB0" /\ cur.id = 70

\* C17: a pin whose capability is unset is ignored.  An invalid id for it
\* never makes the precondition check fail, and the pin (read/write-control
\* without readEnabled, data lines 0..3 without mode8Enabled) stays as it
\* was before setup, neither configured nor written, through setup and
\* every later call; without mode8Enabled no sampling loop reads lines 0..3.
C17_UnusedPinsIgnored ==
    /\ (cur.kind = "setup" /\ cur.role \notin UsedRoles(readEnabled, mode8Enabled)) =>
          ~(pc = "failed" /\ node = "none")
    /\ ~readEnabled => Untouched("RW")
    /\ ~mode8Enabled =>
          /\ \A i \in 0..3 : Untouched(pinDB(i))
          /\ \A k \in 1..Len(cur.samples) : \A i \in 0..3 : cur.samples[k].db[i] = -2

\* C17 witness: setup without either capability was given the id -1 for
\* read/write-control, succeeded, and the first write on the node has
\* returned.
C17_Witness ==
    /\ Returned("write") /\ ~readEnabled /\ ~mode8Enabled
    /\ prev.kind = "setup" /\ prev.role = "RW" /\ prev.id = -1

\* C18 as stated: when wiringPiNewNode returns no node, or the allocation
\* of the record fails, setup returns EXIT_FAILURE, installs no handler and
\* makes no access through the missing node (after a NULL node the only
\* positions are the one just after wiringPiNewNode and the failure return).
C18_Original ==
    /\ (cur.kind = "setup" /\ node = "null") =>
          /\ pc \in {"setup_alloc", "failed"}
          /\ pc = "failed" => setupStatus = "EXIT_FAILURE"
          /\ nodeDigitalWrite = "none" /\ nodeDigitalRead = "none"
          /\ dataStruct = "null"
    /\ (cur.kind = "setup" /\ node = "new" /\ pc = "failed") =>
          /\ setupStatus = "EXIT_FAILURE"
          /\ nodeDigitalWrite = "none" /\ nodeDigitalRead = "none"
          /\ \A r \in Roles : Untouched(r)

\* C18, the allocation half alone, which the code does keep: when malloc
\* of the record fails setup returns EXIT_FAILURE with no handler installed
\* and no pin touched.
C18_AllocFailureOnly ==
    (cur.kind = "setup" /\ node = "new" /\ pc = "failed") =>
        /\ setupStatus = "EXIT_FAILURE"
        /\ nodeDigitalWrite = "none" /\ nodeDigitalRead = "none"
        /\ \A r \in Roles : Untouched(r)

\* C18 witness: wiringPiNewNode returned NULL and the store through the
\* node has faulted; setup has returned nothing.
C18_Witness == pc = "crashed" /\ node = "null" /\ setupStatus = "none"

\* Setup has returned EXIT_SUCCESS and nothing was called since.
SetupSucceeded == Returned("setup") /\ setupStatus = "EXIT_SUCCESS"

\* C19: a successful setup without mode8Enabled has made exactly one enable
\* pulse, at whose falling edge data line 5 was high and lines 4, 6 and 7
\* low, has put line 5 back to low and has let 37 us pass after that; a
\* successful setup with mode8Enabled has made no enable pulse; either way
\* every used pin is an output, at low, with its pull-up enabled.
C19_SetupPrimesFourBit ==
    SetupSucceeded =>
        /\ \A r \in UsedRoles(readEnabled, mode8Enabled) :
              level[r] = 0 /\ mode[r] = "out" /\ pud[r] = "up"
        /\ IF mode8Enabled
             THEN cur.rises = 0 /\ cur.falls = <<>>
             ELSE /\ cur.rises = 1 /\ Len(cur.falls) = 1
                  /\ cur.falls[1].db[5] = 1
                  /\ \A i \in {4, 6, 7} : cur.falls[1].db[i] = 0
                  /\ clock >= cur.falls[1].t + 37000

\* C19 witness: setup with readEnabled and without mode8Enabled has
\* returned EXIT_SUCCESS on a registered node.
C19_Witness == SetupSucceeded /\ readEnabled /\ ~mode8Enabled /\ node = "new"

\* The instruction classes, by the byte ranges they are given.
CmdKinds == {"Clear", "Home", "EntryMode", "OnOff", "Shift", "FnSet", "SetCGRAM", "SetDDRAM"}
InClass(kind, b) ==
    CASE kind = "Clear" -> b = 1
      [] kind = "Home" -> b = 2
      [] kind = "EntryMode" -> b \in 4..7
      [] kind = "OnOff" -> b \in 8..15
      [] kind = "Shift" -> b \in 16..31
      [] kind = "FnSet" -> b \in 32..63
      [] kind = "SetCGRAM" -> b \in 64..127
      [] kind = "SetDDRAM" -> b \in 128..255

AllocFailed == cur.kind = "setup" /\ node = "new" /\ pc = "failed"

\* C21 as stated: when the allocation of the node record fails, the used
\* pins are already in their idle state (pull-up, output, low) at the
\* failure return.
C21_Original ==
    AllocFailed =>
        \A r \in UsedRoles(readEnabled, mode8Enabled) :
            level[r] = 0 /\ mode[r] = "out" /\ pud[r] = "up"

\* C21 amended: the record is allocated before any pin is configured, so
\* when the allocation fails setup returns EXIT_FAILURE with every pin as it
\* was before the call, no enable edge made, no record and no handler; the
\* node wiringPiNewNode registered stays registered.
C21_Amended ==
    AllocFailed =>
        /\ setupStatus = "EXIT_FAILURE"
        /\ \A r \in Roles : Untouched(r)
        /\ cur.rises = 0 /\ cur.falls = <<>>
        /\ dataStruct = "null"
        /\ nodeDigitalWrite = "none" /\ nodeDigitalRead = "none"

\* C21 witness: setup with both capabilities has returned on a failed
\* allocation of the record.
C21_Witness == AllocFailed /\ readEnabled /\ mode8Enabled

InOp == cur.kind \in {"write", "read"} /\ pc # "idle"

\* The running (or last) call is one that waits for ready on a
\* read-capable node: a write, or a memory read.
WaitsOnFlag == readEnabled /\ (cur.kind = "write" \/ (cur.kind = "read" /\ cur.pin = 0))

\* The call has raised enable for a data cycle, or has returned.
StrobedOrReturned ==
    \/ cur.rise1 # -1
    \/ cur.samples # <<>>
    \/ BodyFalls(cur) # <<>>
    \/ pc = "idle"

\* C23: with read capability, a write or memory read leaves the polling
\* loop only through a sample that found the busy flag low: it has made no
\* data strobe and has not returned before such a sample, so with the flag
\* stuck high it polls on and never strobes.  When the flag is eventually
\* sampled low and, without read capability, when the sleep eventually
\* reports the deadline reached, every running write or read returns, with
\* enable low.
C23_ReturnsOnceReady ==
    /\ []((WaitsOnFlag /\ StrobedOrReturned) => cur.ready.rises >= 1)
    /\ (InOp ~> (pc = "idle" /\ level["E"] = 0))

\* C23 witness: a memory read on a read-capable node has returned after
\* its wait slept once and then sampled the flag high once.
C23_Witness ==
    /\ Returned("read") /\ cur.pin = 0 /\ readEnabled
    /\ polls = 1 /\ Len(cur.slept) = 1 /\ level["E"] = 0

\* C24: a write or read that starts while the node's width is 4-bit makes
\* an even number of enable falling edges: two in its body and, when it runs
\* the polling wait, two per poll iteration and two after the low sample;
\* each time the wait is about to sample the flag it has completed a whole
\* number of nibble pairs.
C24_NibblePhaseEven ==
    /\ (pc = "wb_sample" /\ cur.waiter = 4) => Len(cur.falls) = 2 * polls
    /\ \A k \in {"write", "read"} : (Returned(k) /\ ~cur.entryMode8) =>
          /\ Len(cur.falls) % 2 = 0
          /\ Len(BodyFalls(cur)) = 2
          /\ Len(WaitFalls(cur)) \in {0, 2 * polls + 2}

\* C24 witness: the write that switches a 4-bit node to 8-bit has returned
\* after a wait with one high poll: six falling edges in all.
C24_Witness ==
    /\ Returned("write") /\ ~cur.entryMode8 /\ mode8
    /\ polls = 1 /\ Len(cur.falls) = 6

\* The data lines the code is about to sample at the current position:
\* line 7 in the polling loops, lines 0..7 in the 8-bit reader and lines
\* 4..7 at both samples of the 4-bit reader.
SampledLines ==
    IF pc = "wb_sample" THEN {7}
    ELSE IF pc = "R8_sample" THEN 0..7
    ELSE IF pc \in {"R4_sample1", "R4_sample2"} THEN 4..7
    ELSE {}

\* C25: whenever a data line is about to be sampled, that line is
\* configured as input, enable is high and the read/write line is high.
C25_Original ==
    \A i \in SampledLines :
        /\ mode[pinDB(i)] = "in"
        /\ level["E"] = 1
        /\ level["RW"] = 1

\* C25, what the code does: enable and read/write are high at every
\* sample, and every sampled line is an input except line 7 at both samples
\* of a 4-bit memory read, which waitWhileBusy_4 has put back to output.
C25_Line7OutputInRead4 ==
    \A i \in SampledLines :
        /\ level["E"] = 1
        /\ level["RW"] = 1
        /\ (mode[pinDB(i)] = "in") <=>
              ~(i = 7 /\ pc \in {"R4_sample1", "R4_sample2"} /\ cur.pin = 0)

\* C25 witness: a 4-bit memory read, its busy-wait done, is about to take
\* its first sample while line 7 is an output.
C25_Witness ==
    /\ pc = "R4_sample1" /\ cur.pin = 0 /\ cur.ready.rises >= 1
    /\ mode["DB7"] = "out" /\ mode["DB6"] = "in"

\* The data lines of the node's active width.
ActiveLines == IF mode8 THEN 0..7 ELSE 4..7

\* Enable and read/write are both high: the controller drives the bus.
ReadCycleOpen == level["E"] = 1 /\ level["RW"] = 1

\* C26: while enable and read/write are both high no data line of the
\* active width is a host output, and a data line goes from input back to
\* output only while enable is low.
C26_Original ==
    [][/\ ReadCycleOpen' => \A i \in ActiveLines' : mode'[pinDB(i)] = "in"
       /\ \A i \in 0..7 :
             (mode[pinDB(i)] = "in" /\ mode'[pinDB(i)] = "out") => level["E"] = 0]_vars

\* C26, what the code does: the readers' own cycles keep their lines as
\* inputs except line 7 after a 4-bit busy-wait, the polling cycles switch
\* only line 7 to input (the other lines stay outputs unless the 4-bit
\* reader made them inputs beforehand), and line 7 is switched back to output by the
\* busy-wait while enable is still high; the readers switch back with
\* enable low.
C26_OnlyLine7InPolls ==
    [][/\ (ReadCycleOpen' /\ pc' \in WaitLabels /\ ~(cur'.kind = "read" /\ cur'.encoder = 4)) =>
             \A i \in (IF mode8Enabled THEN 0..6 ELSE 4..6) : mode'[pinDB(i)] = "out"
       /\ (ReadCycleOpen' /\ pc' \in {"R8_sample", "R8_end"}) =>
             \A i \in 0..7 : mode'[pinDB(i)] = "in"
       /\ (ReadCycleOpen' /\ pc' \in {"R4_sample1", "R4_end1", "R4_sample2", "R4_end2"}) =>
             \A i \in 4..6 : mode'[pinDB(i)] = "in"
       /\ \A i \in 0..7 :
             (mode[pinDB(i)] = "in" /\ mode'[pinDB(i)] = "out") =>
                 IF pc = "wb_pinout" THEN i = 7 /\ level["E"] = 1 ELSE level["E"] = 0]_vars

\* C26 witness: the busy-wait of an 8-bit node has switched line 7 back
\* to output and has not yet lowered enable; read/write is high.
C26_Witness ==
    /\ pc = "wb_end" /\ mode8 /\ ReadCycleOpen
    /\ \A i \in 0..7 : mode[pinDB(i)] = "out"

\* C27: register-select and read/write change level only in a step that
\* starts and ends with enable not high (low, or during setup not yet driven
\* by the driver); between a rising edge of enable and its falling edge both
\* keep their level.
C27_ControlStableWhileEnabled ==
    [][(level'["RS"] # level["RS"] \/ level'["RW"] # level["RW"]) =>
          /\ level["E"] # 1
          /\ level'["E"] # 1
          /\ level["E"] = -1 => cur'.kind = "setup"]_vars

\* C27 witness: a 4-bit memory read, after a busy-wait that polled with
\* register-select low, is at its second sample with register-select,
\* read/write and enable all high.
C27_Witness ==
    /\ pc = "R4_sample2" /\ cur.pin = 0 /\ polls = 1
    /\ level["RS"] = 1 /\ level["RW"] = 1 /\ level["E"] = 1
    /\ cur.falls[1].rs = 0

\* C28: no step of a read, its busy-wait included, changes the node's
\* width flag or its deadline; when a read returns, every data line is in
\* the direction it had before the call, output for each line the node
\* uses; after setup the deadline is changed only by a write and the width
\* flag only by an instruction write.
C28_ReadsLeaveNodeState ==
    [][/\ cur'.kind = "read" => (mode8' = mode8 /\ operation_end' = operation_end)
       /\ (cur.kind = "read" /\ pc # "idle" /\ pc' = "idle") =>
             \A i \in 0..7 :
                 mode'[pinDB(i)] = IF pinDB(i) \in UsedRoles(readEnabled, mode8Enabled)
                                     THEN "out" ELSE "unset"
       /\ (Installed /\ operation_end' # operation_end) => cur'.kind = "write"
       /\ (Installed /\ mode8' # mode8) => (cur'.kind = "write" /\ cur'.pin # 0)]_vars

\* C28 witness: an 8-bit memory read has returned after a busy-wait with
\* one high poll and switched all eight data lines, with a deadline that the
\* preceding write left in the future of the read's entry.
C28_Witness ==
    /\ Returned("read") /\ cur.encoder = 8 /\ cur.pin = 0 /\ polls = 1
    /\ prev.kind = "write"
    /\ operation_end # [tv_sec |-> 0, tv_nsec |-> 0]
    /\ \A i \in 0..7 : mode[pinDB(i)] = "out"

=============================================================================
